---- MODULE Spec2Model ----
(***************************************************************************)
(* The Lua DNS provider for libdns (libdns-luadns/provider.go, with its    *)
(* HTTP client) as a state machine.                                        *)
(*                                                                         *)
(* Go strings that the code takes apart (zone names, record names, IDs)    *)
(* are sequences of one-character strings, so that strings.TrimSuffix and  *)
(* strings.HasSuffix are computed character by character.  Strings that    *)
(* the code only copies or compares (record type, record value, the two    *)
(* credentials) are TLA+ strings.  A time.Duration is an integer number of *)
(* milliseconds (Second == 1000); a nil slice and an empty slice are both  *)
(* the empty sequence, and a nil map is the empty function.                *)
(***************************************************************************)
EXTENDS Integers, Sequences, FiniteSets, TLC

(***************************************************************************)
(* Bounds of the model.                                                    *)
(***************************************************************************)
\* concurrent callers that share one Provider
NumCallers == 2
\* invocations of the four operations in one behaviour
MaxInvocations == 2
\* longest record list handed to Append/Set/DeleteRecords (sequential use)
MaxRecs == 3
\* longest record list handed to an operation by concurrent callers
MaxConcRecs == 1
\* the vendor stops assigning record IDs after this one
MaxID == 4
\* times the vendor's zone list changes under the Provider
MaxZoneChanges == 1
\* `luadns` directives in the tokens handed to UnmarshalCaddyfile
MaxDirectives == 2
\* lines in the blocks of those directives, all together
MaxLines == 3
\* arguments after a directive or a subdirective
MaxArgs == 3
\* generic TTLs tried by the translator run from -MaxHalfSeconds/2 s to
\* +MaxHalfSeconds/2 s in steps of half a second
MaxHalfSeconds == 5

(***************************************************************************)
(* Program constants.                                                      *)
(***************************************************************************)
\* time.Second, in the model's unit of one millisecond
Second == 1000
\* the default TTL of fromLibdnsRecord
DefaultTTL == 3600

(***************************************************************************)
(* Strings.                                                                *)
(***************************************************************************)
Dot == <<".">>
At == <<"@">>
Empty == <<>>
Test == <<"t", "e", "s", "t">>
WwwDot == <<"w", "w", "w", ".">>
ExampleCom == <<"e", "x", "a", "m", "p", "l", "e", ".", "c", "o", "m">>
ExampleComDot == ExampleCom \o Dot
OtherOrg == <<"o", "t", "h", "e", "r", ".", "o", "r", "g">>
OtherOrgDot == OtherOrg \o Dot
TestExampleCom == Test \o Dot \o ExampleCom

\* strings.HasSuffix
HasSuffix(s, suffix) ==
    /\ Len(suffix) <= Len(s)
    /\ SubSeq(s, Len(s) - Len(suffix) + 1, Len(s)) = suffix

\* strings.TrimSuffix: s without the suffix, once, when s ends with it
TrimSuffix(s, suffix) ==
    IF HasSuffix(s, suffix) THEN SubSeq(s, 1, Len(s) - Len(suffix)) ELSE s

\* s without one trailing dot
StripDot(s) ==
    IF s # <<>> /\ s[Len(s)] = "." THEN SubSeq(s, 1, Len(s) - 1) ELSE s

Digit(d) ==
    CASE d = 0 -> "0" [] d = 1 -> "1" [] d = 2 -> "2" [] d = 3 -> "3"
      [] d = 4 -> "4" [] d = 5 -> "5" [] d = 6 -> "6" [] d = 7 -> "7"
      [] d = 8 -> "8" [] d = 9 -> "9"

\* fmt.Sprintf("%d", n)
RECURSIVE FormatInt(_)
FormatInt(n) ==
    IF n < 0 THEN <<"-">> \o FormatInt(-n)
    ELSE IF n < 10 THEN <<Digit(n)>>
    ELSE FormatInt(n \div 10) \o <<Digit(n % 10)>>

\* int(d.Seconds()): the conversion to int truncates toward zero
DurationSecondsFloor(d) == d \div Second
DurationSeconds(d) ==
    IF d >= 0 THEN d \div Second ELSE -((-d) \div Second)

(***************************************************************************)
(* The record translator.                                                  *)
(* libdns.Record: [ID, Type, Name, Value, TTL]                             *)
(* Record (vendor): [ID, Name, Type, Content, TTL, ZoneID]                 *)
(***************************************************************************)
toLibdnsRecord(r, zone) ==
    LET name == TrimSuffix(TrimSuffix(r.Name, Dot \o zone), Dot)
    IN  [ID |-> FormatInt(r.ID),
         Type |-> r.Type,
         Name |-> name,
         Value |-> r.Content,
         TTL |-> r.TTL * Second]

\* the fully-qualified name fromLibdnsRecord constructs
ConstructFQDNNoEmpty(name, zone) ==
    LET n == IF name = At THEN zone
             ELSE IF ~HasSuffix(name, Dot) THEN name \o Dot \o zone
             ELSE name
    IN  TrimSuffix(n, Dot)
ConstructFQDN(name, zone) ==
    LET n == IF name = At \/ name = Empty THEN zone
             ELSE IF ~HasSuffix(name, Dot) THEN name \o Dot \o zone
             ELSE name
    IN  TrimSuffix(n, Dot)

\* the TTL fromLibdnsRecord sends
VendorTTL(d) ==
    LET ttl == DurationSeconds(d)
    IN  IF ttl = 0 THEN DefaultTTL ELSE ttl

fromLibdnsRecord(r, zone) ==
    [ID |-> 0,
     Name |-> ConstructFQDN(r.Name, zone),
     Type |-> r.Type,
     Content |-> r.Value,
     TTL |-> VendorTTL(r.TTL),
     ZoneID |-> 0]

matchesRecordValue(apiRec, libRec, zone) ==
    LET libAsAPI == fromLibdnsRecord(libRec, zone)
    IN  /\ apiRec.Name = libAsAPI.Name /\ apiRec.Type = libAsAPI.Type
        /\ apiRec.Content = libAsAPI.Content
matchesRecordRelative(apiRec, libRec, zone) ==
    apiRec.Name = libRec.Name /\ apiRec.Type = libRec.Type
matchesRecord(apiRec, libRec, zone) ==
    LET libAsAPI == fromLibdnsRecord(libRec, zone)
    IN  apiRec.Name = libAsAPI.Name /\ apiRec.Type = libAsAPI.Type

(***************************************************************************)
(* The vendor (the Lua DNS REST API the Client talks to): a list of zones  *)
(* and a list of records, each record in the zone its ZoneID names.        *)
(***************************************************************************)
ZeroRecord ==
    [ID |-> 0, Name |-> Empty, Type |-> "", Content |-> "", TTL |-> 0, ZoneID |-> 0]

\* GET /zones/{zoneID}/records
VendorList(records, zoneID) ==
    SelectSeq(records, LAMBDA r : r.ZoneID = zoneID)

\* POST /zones/{zoneID}/records: the record as stored, with its new ID
VendorCreated(id, zoneID, body) ==
    [body EXCEPT !.ID = id, !.ZoneID = zoneID]

\* PUT /zones/{zoneID}/records/{recordID}
VendorUpdate(records, zoneID, recordID, body) ==
    [i \in DOMAIN records |->
        IF records[i].ID = recordID /\ records[i].ZoneID = zoneID
        THEN VendorCreated(recordID, zoneID, body)
        ELSE records[i]]

\* DELETE /zones/{zoneID}/records/{recordID}
VendorDelete(records, zoneID, recordID) ==
    SelectSeq(records, LAMBDA r : ~(r.ID = recordID /\ r.ZoneID = zoneID))

VendorHasZone(zones, zoneID) ==
    \E i \in DOMAIN zones : zones[i].ID = zoneID

VendorHasRecord(records, zoneID, recordID) ==
    \E i \in DOMAIN records :
        records[i].ID = recordID /\ records[i].ZoneID = zoneID

(***************************************************************************)
(* Inputs.                                                                 *)
(***************************************************************************)
Callers == 1..NumCallers

ZoneArgs == {ExampleCom, ExampleComDot, OtherOrg}

RecA == [ID |-> Empty, Type |-> "A", Name |-> Test, Value |-> "192.0.2.1",
         TTL |-> 3600 * Second]
RecB == [ID |-> Empty, Type |-> "A", Name |-> Test, Value |-> "192.0.2.2",
         TTL |-> 0]
RecC == [ID |-> Empty, Type |-> "TXT", Name |-> At, Value |-> "v=spf1",
         TTL |-> 1500]
RecordPool == <<RecA, RecB, RecC>>

\* the non-empty lists of at most n records of the pool, in the pool's order
RecordLists(n) ==
    {[i \in 1..Cardinality(S) |->
        RecordPool[CHOOSE k \in S : Cardinality({j \in S : j < k}) = i - 1]] :
     S \in {T \in SUBSET (DOMAIN RecordPool) : T # {} /\ Cardinality(T) <= n}}

\* the lists concurrent callers pass: the first n records of the pool
ConcRecordLists(n) ==
    {SubSeq(RecordPool, 1, k) : k \in 1..n}

Ops == {"Get", "Append", "Set", "Delete"}

VendorZoneLists ==
    {<<[ID |-> 7, Name |-> ExampleCom]>>,
     <<[ID |-> 8, Name |-> OtherOrg], [ID |-> 7, Name |-> ExampleComDot]>>}

ExampleRecord ==
    [ID |-> 1, Name |-> TestExampleCom, Type |-> "A", Content |-> "192.0.2.1",
     TTL |-> 3600, ZoneID |-> 7]

VendorRecordLists == {<<>>, <<ExampleRecord>>}

(***************************************************************************)
(* State.                                                                  *)
(***************************************************************************)
VARIABLES
    Email,          \* Provider.Email
    APIKey,         \* Provider.APIKey
    client,         \* Provider.client: NoClient (nil) or the Client's fields
    zoneCache,      \* Provider.zoneCache: zone name -> zone ID
    zoneCacheMu,    \* Provider.zoneCacheMu: [readers, writer]
    vendorZones,    \* the vendor's zones, in the order GET /zones lists them
    vendorRecords,  \* the vendor's records, in listing order
    nextID,         \* the ID the vendor gives the next record it creates
    frame,          \* per caller: where its invocation stands, and its locals
    resolved,       \* history: the zones (dot stripped) a resolution succeeded for
    lzTotal,        \* history: list-zones calls issued so far, per zone
    prev,           \* history: the last invocation, when a single-record SetRecords
                    \* without error or one whose zone resolution failed
    nInv,           \* invocations begun
    conv,           \* the record translator applied on its own
    parse           \* UnmarshalCaddyfile: where it stands in the Caddyfile tokens

vars == <<Email, APIKey, client, zoneCache, zoneCacheMu, vendorZones,
          vendorRecords, nextID, frame, resolved, lzTotal, prev, nInv, conv, parse>>

provider == <<Email, APIKey, client, zoneCache, zoneCacheMu>>
vendor == <<vendorZones, vendorRecords, nextID>>
history == <<resolved, lzTotal, prev>>

NoClient == [email |-> "", apiKey |-> "", set |-> FALSE, seen |-> {}]
NoErr == [kind |-> "none", name |-> Empty]
NoReq == [kind |-> "none", zoneID |-> 0, recordID |-> 0, body |-> ZeroRecord]
ZeroCalls == [lz |-> 0, lr |-> 0, cr |-> 0, up |-> 0, de |-> 0]
NoPrev == [set |-> FALSE, zfail |-> FALSE, zone |-> Empty, rec |-> RecA,
           fresh |-> FALSE, cr |-> 0, up |-> 0]
NoMu == [readers |-> {}, writer |-> 0]

\* A caller's frame: where it stands in its operation (pc), the operation and
\* its arguments (op, zone, recs), its locals (zoneID, existing = existingRecords,
\* idx = the loop's position, result = records / created / updated / deleted,
\* err), and the HTTP request it has in flight (req).  History kept with it:
\* calls = HTTP calls it has issued, by kind; made = the records the vendor
\* answered its create calls with; first = its resolution was the first to
\* succeed for the zone; fresh = the vendor held no record with the name and
\* type of recs[1] when it began; listed = it got the listing; before = the
\* vendor's records when it began; cacheBefore = the zone cache when it began;
\* log = the HTTP calls it has issued, in order, each with the record ID it
\* names and the position of the input it is for (0 for a lookup or listing).
\* This one is a caller that is in none of the four operations.
IdleFrame ==
    [pc |-> "idle", op |-> "none", zone |-> Empty, recs |-> <<>>,
     zoneID |-> 0, existing |-> <<>>, idx |-> 0, result |-> <<>>,
     err |-> NoErr, req |-> NoReq,
     calls |-> ZeroCalls, made |-> <<>>, first |-> FALSE, fresh |-> FALSE,
     listed |-> FALSE, before |-> <<>>, cacheBefore |-> <<>>, log |-> <<>>]

IdleConv == [stage |-> "off", rec |-> RecA, zone |-> Empty,
             api |-> ZeroRecord, out |-> RecA, match |-> FALSE]

\* UnmarshalCaddyfile is not running.  pc is where the parser stands, err the
\* error it returned ("" for nil).  History of the tokens read so far:
\* dirs = directives, inline = directives with two arguments, emails and
\* keys = block lines `email` and `api_key`, emailGiven and keyGiven = the
\* value last given for the credential is not empty (the credential is set),
\* again = a block line gave a credential that was set,
\* badInline = a directive had a number of arguments other than 0 and 2,
\* badSub = an `email` or `api_key` line had a number of arguments other
\* than 1, unknown = a block line had another name.
IdleParse ==
    [pc |-> "off", err |-> "", dirs |-> 0, inline |-> 0, emails |-> 0, keys |-> 0,
     emailGiven |-> FALSE, keyGiven |-> FALSE, again |-> FALSE,
     badInline |-> FALSE, badSub |-> FALSE, unknown |-> FALSE]

NormZones == {TrimSuffix(z, Dot) : z \in ZoneArgs}

Init ==
    /\ Email \in {"", "user@example.com"}
    /\ APIKey \in {"", "key"}
    /\ client = NoClient
    /\ zoneCache = <<>>
    /\ zoneCacheMu = NoMu
    /\ vendorZones \in VendorZoneLists
    /\ vendorRecords \in VendorRecordLists
    /\ nextID = 2
    /\ frame = [c \in Callers |-> IdleFrame]
    /\ resolved = {}
    /\ lzTotal = [z \in NormZones |-> 0]
    /\ prev = NoPrev
    /\ nInv = 0
    /\ conv = IdleConv
    /\ parse = IdleParse

(***************************************************************************)
(* Helpers of the operations.                                              *)
(***************************************************************************)
\* ensureClient: the two checks that come before anything else
CredentialsMissingBoth(email, apiKey) == email = "" /\ apiKey = ""
CredentialsMissing(email, apiKey) == email = "" \/ apiKey = ""

\* ensureClient: the unsynchronized read of p.client by caller c may miss a
\* write that nothing orders before it
StaleRead(cl, c) == cl.set /\ c \notin cl.seen

\* getZoneID: p.zoneCacheMu.RUnlock()
RUnlockNever(mu, c) == mu
RUnlock(mu, c) == [mu EXCEPT !.readers = @ \ {c}]

\* getZoneID: the cache lookup, `id, ok := p.zoneCache[zone]`
CacheHitNever(cache, zone) == FALSE
CacheHit(cache, zone) == zone \in DOMAIN cache

\* getZoneID: p.zoneCache[zone] = zoneID
CachePutNothing(cache, zone, zoneID) == cache
CachePut(cache, zone, zoneID) ==
    [k \in DOMAIN cache \cup {zone} |-> IF k = zone THEN zoneID ELSE cache[k]]

\* getZoneID: the scan of the listed zones; 0 when none has the name
RECURSIVE FindZone(_, _)
FindZone(zones, zone) ==
    IF zones = <<>> THEN 0
    ELSE IF TrimSuffix(Head(zones).Name, Dot) = zone THEN Head(zones).ID
    ELSE FindZone(Tail(zones), zone)

\* getZoneID: `if zoneID == 0`, after the scan
ZoneNotFoundNever(zoneID) == FALSE
ZoneNotFound(zoneID) == zoneID = 0

\* SetRecords / DeleteRecords: the ID of the first listed record that matches
\* rec; 0 when none does
RECURSIVE FirstMatchID(_, _, _)
FirstMatchID(existing, rec, zone) ==
    IF existing = <<>> THEN 0
    ELSE IF matchesRecord(Head(existing), rec, zone) THEN Head(existing).ID
    ELSE FirstMatchID(Tail(existing), rec, zone)

\* DeleteRecords: `if recordID == 0 { continue }`
DeleteNeverSkips(recordID) == FALSE
DeleteSkips(recordID) == recordID = 0

\* AppendRecords: what it returns beside the error when a create call fails
AppendFailDropsCreated(created) == <<>>
AppendFailResult(created) == created

\* GetRecords: the translation of the listing
GetResult(apiRecords, zone) ==
    [i \in DOMAIN apiRecords |-> toLibdnsRecord(apiRecords[i], zone)]

\* the record an invocation's loop is at
Cur(f) == f.recs[f.idx]

\* where the loop over the input records stands with idx at i: at the next
\* record, or past the last one, where the operation returns with no error
LoopPc(recs, i) == IF i > Len(recs) THEN "done" ELSE "loop"

\* where an operation goes once the zone ID is known
AfterResolveNoListing(f) == LoopPc(f.recs, 1)
AfterResolve(f) == IF f.op = "Append" THEN LoopPc(f.recs, 1) ELSE "listRecords"

Bump(calls, k) ==
    [calls EXCEPT ![k] = @ + 1]

\* history: an entry of an invocation's log of calls
Call(kind, recordID, idx) == [kind |-> kind, recordID |-> recordID, idx |-> idx]

\* a call has failed: the operation returns, with the error
FailedContinues(f, kind, name) ==
    [f EXCEPT !.pc = LoopPc(f.recs, f.idx + 1), !.idx = @ + 1, !.req = NoReq,
              !.err = [kind |-> kind, name |-> name]]
Failed(f, kind, name) ==
    [f EXCEPT !.pc = "done", !.req = NoReq, !.err = [kind |-> kind, name |-> name]]

\* where an operation goes with the listing: GetRecords returns it, the
\* other two start their loop
AfterListingRelists(f) ==
    IF f.op = "Get" THEN (IF f.calls.lr < 2 THEN "listRecords" ELSE "done")
    ELSE LoopPc(f.recs, 1)
AfterListing(f) == IF f.op = "Get" THEN "done" ELSE LoopPc(f.recs, 1)

\* DeleteRecords: deleted = append(deleted, rec)
DeletedRefreshed(f) ==
    toLibdnsRecord(CHOOSE e \in {f.existing[j] : j \in DOMAIN f.existing} :
                       e.ID = f.req.recordID, f.zone)
DeletedEntry(f) == Cur(f)

\* history: whether the vendor holds no record with rec's name and type
Fresh(records, rec, zone) ==
    \A i \in DOMAIN records :
        ~(records[i].Name = ConstructFQDN(rec.Name, zone) /\ records[i].Type = rec.Type)

(***************************************************************************)
(* The four operations, step by step.  A caller's step changes its own     *)
(* frame; an HTTP call is two steps, the request leaving and the response  *)
(* (or the failure) arriving.                                              *)
(***************************************************************************)
Set(c, f) == frame' = [frame EXCEPT ![c] = f]

\* the call of GetRecords / AppendRecords / SetRecords / DeleteRecords
BeginOp(c, o, z, rs) ==
    /\ frame[c].pc = "idle"
    /\ nInv < MaxInvocations
    /\ nInv' = nInv + 1
    /\ Set(c, [IdleFrame EXCEPT !.pc = "ensure", !.op = o, !.zone = z,
                                !.recs = rs, !.idx = 1,
                                !.fresh = rs # <<>> /\ Fresh(vendorRecords, rs[1], z),
                                !.before = vendorRecords,
                                !.cacheBefore = zoneCache])
    /\ UNCHANGED <<provider, vendor, history, conv, parse>>

Begin(c) ==
    \/ \E z \in ZoneArgs : BeginOp(c, "Get", z, <<>>)
    \/ \E o \in Ops \ {"Get"}, z \in ZoneArgs, rs \in ConcRecordLists(MaxConcRecs) :
            BeginOp(c, o, z, rs)

\* sequential use: an operation is called when no other is running
SeqBegin(c) ==
    /\ \A d \in Callers : frame[d].pc = "idle"
    /\ \/ \E z \in ZoneArgs : BeginOp(c, "Get", z, <<>>)
       \/ \E o \in Ops \ {"Get"}, z \in ZoneArgs, rs \in RecordLists(MaxRecs) :
               BeginOp(c, o, z, rs)

\* ensureClient, up to the test of p.client.  The field is read and written
\* with no synchronization: a caller that has neither written it nor seen it
\* written may still read nil after another caller's write.
EnsureClient(c) ==
    LET f == frame[c] IN
    /\ f.pc = "ensure"
    /\ IF CredentialsMissing(Email, APIKey)
       THEN /\ Set(c, [f EXCEPT !.pc = "done", !.err = [kind |-> "config", name |-> Empty]])
            /\ UNCHANGED client
       ELSE IF ~client.set
       THEN /\ Set(c, [f EXCEPT !.pc = "newClient"])
            /\ UNCHANGED client
       ELSE \/ /\ Set(c, [f EXCEPT !.pc = "rlock"])
               /\ client' = [client EXCEPT !.seen = @ \cup {c}]
            \/ /\ StaleRead(client, c)
               /\ Set(c, [f EXCEPT !.pc = "newClient"])
               /\ UNCHANGED client
    /\ UNCHANGED <<Email, APIKey, zoneCache, zoneCacheMu, vendor, history, nInv, conv, parse>>

\* ensureClient: p.client = NewClient(p.Email, p.APIKey)
NewClient(c) ==
    LET f == frame[c] IN
    /\ f.pc = "newClient"
    /\ client' = [email |-> Email, apiKey |-> APIKey, set |-> TRUE,
                  seen |-> client.seen \cup {c}]
    /\ Set(c, [f EXCEPT !.pc = "rlock"])
    /\ UNCHANGED <<Email, APIKey, zoneCache, zoneCacheMu, vendor, history, nInv, conv, parse>>

\* getZoneID: p.zoneCacheMu.RLock()
RLock(c) ==
    LET f == frame[c] IN
    /\ f.pc = "rlock"
    /\ zoneCacheMu.writer = 0
    /\ zoneCacheMu' = [zoneCacheMu EXCEPT !.readers = @ \cup {c}]
    /\ Set(c, [f EXCEPT !.pc = "lookup"])
    /\ UNCHANGED <<Email, APIKey, client, zoneCache, vendor, history, nInv, conv, parse>>

\* getZoneID: the lookup under the read lock, and RUnlock on either path
Lookup(c) ==
    LET f == frame[c]
        key == TrimSuffix(f.zone, Dot)
    IN
    /\ f.pc = "lookup"
    /\ zoneCacheMu' = RUnlock(zoneCacheMu, c)
    /\ IF CacheHit(zoneCache, key)
       THEN /\ Set(c, [f EXCEPT !.pc = AfterResolve(f), !.zoneID = zoneCache[key],
                                !.first = key \notin resolved])
            /\ resolved' = resolved \cup {key}
       ELSE /\ Set(c, [f EXCEPT !.pc = "listZones"])
            /\ UNCHANGED resolved
    /\ UNCHANGED <<Email, APIKey, client, zoneCache, vendor, lzTotal, prev, nInv, conv, parse>>

\* getZoneID: p.client.ListZones(ctx), the request
SendListZones(c) ==
    LET f == frame[c]
        key == TrimSuffix(f.zone, Dot)
    IN
    /\ f.pc = "listZones"
    /\ Set(c, [f EXCEPT !.pc = "listZonesWait", !.req = [NoReq EXCEPT !.kind = "ListZones"],
                        !.calls = Bump(@, "lz"),
                        !.log = Append(@, Call("ListZones", 0, 0))])
    /\ lzTotal' = [lzTotal EXCEPT ![key] = @ + 1]
    /\ UNCHANGED <<provider, vendor, resolved, prev, nInv, conv, parse>>

\* getZoneID: the answer to ListZones, and the scan for the zone
RecvListZones(c) ==
    LET f == frame[c]
        key == TrimSuffix(f.zone, Dot)
        zoneID == FindZone(vendorZones, key)
    IN
    /\ f.pc = "listZonesWait"
    /\ \E ok \in BOOLEAN :
          IF ~ok
          THEN Set(c, Failed(f, "listZones", Empty))
          ELSE IF ZoneNotFound(zoneID)
          THEN Set(c, Failed(f, "zoneNotFound", key))
          ELSE Set(c, [f EXCEPT !.pc = "lock", !.req = NoReq, !.zoneID = zoneID])
    /\ UNCHANGED <<provider, vendor, history, nInv, conv, parse>>

\* getZoneID: p.zoneCacheMu.Lock()
Lock(c) ==
    LET f == frame[c] IN
    /\ f.pc = "lock"
    /\ zoneCacheMu.writer = 0
    /\ zoneCacheMu.readers = {}
    /\ zoneCacheMu' = [zoneCacheMu EXCEPT !.writer = c]
    /\ Set(c, [f EXCEPT !.pc = "insert"])
    /\ UNCHANGED <<Email, APIKey, client, zoneCache, vendor, history, nInv, conv, parse>>

\* getZoneID: the insertion under the write lock, and Unlock
Insert(c) ==
    LET f == frame[c]
        key == TrimSuffix(f.zone, Dot)
    IN
    /\ f.pc = "insert"
    /\ zoneCache' = CachePut(zoneCache, key, f.zoneID)
    /\ zoneCacheMu' = [zoneCacheMu EXCEPT !.writer = 0]
    /\ Set(c, [f EXCEPT !.pc = AfterResolve(f), !.first = key \notin resolved])
    /\ resolved' = resolved \cup {key}
    /\ UNCHANGED <<Email, APIKey, client, vendor, lzTotal, prev, nInv, conv, parse>>

\* GetRecords / SetRecords / DeleteRecords: p.client.ListRecords(ctx, zoneID)
SendListRecords(c) ==
    LET f == frame[c] IN
    /\ f.pc = "listRecords"
    /\ Set(c, [f EXCEPT !.pc = "listRecordsWait",
                        !.req = [NoReq EXCEPT !.kind = "ListRecords", !.zoneID = f.zoneID],
                        !.calls = Bump(@, "lr"),
                        !.log = Append(@, Call("ListRecords", 0, 0))])
    /\ UNCHANGED <<provider, vendor, history, nInv, conv, parse>>

\* the answer to ListRecords: GetRecords translates it and returns, the other
\* two keep it as existingRecords
RecvListRecords(c) ==
    LET f == frame[c]
        list == VendorList(vendorRecords, f.req.zoneID)
    IN
    /\ f.pc = "listRecordsWait"
    /\ \E ok \in BOOLEAN :
          IF ~ok \/ ~VendorHasZone(vendorZones, f.req.zoneID)
          THEN Set(c, Failed(f, "listRecords", Empty))
          ELSE IF f.op = "Get"
          THEN Set(c, [f EXCEPT !.pc = AfterListing(f), !.req = NoReq, !.listed = TRUE,
                                !.existing = list,
                                !.result = GetResult(list, f.zone)])
          ELSE Set(c, [f EXCEPT !.pc = AfterListing(f), !.req = NoReq,
                                !.listed = TRUE, !.existing = list])
    /\ UNCHANGED <<provider, vendor, history, nInv, conv, parse>>

\* AppendRecords, and SetRecords when no listed record matches:
\* p.client.CreateRecord(ctx, zoneID, apiRec)
SendCreate(c) ==
    LET f == frame[c] IN
    /\ f.pc = "loop"
    /\ f.idx <= Len(f.recs)
    /\ \/ f.op = "Append"
       \/ f.op = "Set" /\ ~(FirstMatchID(f.existing, Cur(f), f.zone) > 0)
    /\ Set(c, [f EXCEPT !.pc = "createWait",
                        !.req = [kind |-> "Create", zoneID |-> f.zoneID, recordID |-> 0,
                                 body |-> fromLibdnsRecord(Cur(f), f.zone)],
                        !.calls = Bump(@, "cr"),
                        !.log = Append(@, Call("Create", 0, f.idx))])
    /\ UNCHANGED <<provider, vendor, history, nInv, conv, parse>>

\* SetRecords when a listed record matches:
\* p.client.UpdateRecord(ctx, zoneID, existingID, apiRec)
SendUpdate(c) ==
    LET f == frame[c]
        existingID == FirstMatchID(f.existing, Cur(f), f.zone)
    IN
    /\ f.pc = "loop"
    /\ f.idx <= Len(f.recs)
    /\ f.op = "Set"
    /\ existingID > 0
    /\ Set(c, [f EXCEPT !.pc = "updateWait",
                        !.req = [kind |-> "Update", zoneID |-> f.zoneID,
                                 recordID |-> existingID,
                                 body |-> fromLibdnsRecord(Cur(f), f.zone)],
                        !.calls = Bump(@, "up"),
                        !.log = Append(@, Call("Update", existingID, f.idx))])
    /\ UNCHANGED <<provider, vendor, history, nInv, conv, parse>>

\* DeleteRecords when a listed record matches:
\* p.client.DeleteRecord(ctx, zoneID, recordID)
SendDelete(c) ==
    LET f == frame[c]
        recordID == FirstMatchID(f.existing, Cur(f), f.zone)
    IN
    /\ f.pc = "loop"
    /\ f.idx <= Len(f.recs)
    /\ f.op = "Delete"
    /\ ~DeleteSkips(recordID)
    /\ Set(c, [f EXCEPT !.pc = "deleteWait",
                        !.req = [kind |-> "Delete", zoneID |-> f.zoneID,
                                 recordID |-> recordID, body |-> ZeroRecord],
                        !.calls = Bump(@, "de"),
                        !.log = Append(@, Call("Delete", recordID, f.idx))])
    /\ UNCHANGED <<provider, vendor, history, nInv, conv, parse>>

\* DeleteRecords when no listed record matches: continue with the next input
SkipDelete(c) ==
    LET f == frame[c]
        recordID == FirstMatchID(f.existing, Cur(f), f.zone)
    IN
    /\ f.pc = "loop"
    /\ f.idx <= Len(f.recs)
    /\ f.op = "Delete"
    /\ DeleteSkips(recordID)
    /\ Set(c, [f EXCEPT !.pc = LoopPc(f.recs, f.idx + 1), !.idx = @ + 1])
    /\ UNCHANGED <<provider, vendor, history, nInv, conv, parse>>

\* the answer to CreateRecord.  "lost" is a 2xx answer whose body does not
\* decode: the vendor has created the record and the Client returns an error.
RecvCreate(c) ==
    LET f == frame[c]
        createdRec == VendorCreated(nextID, f.req.zoneID, f.req.body)
        accepts == VendorHasZone(vendorZones, f.req.zoneID) /\ nextID <= MaxID
        failed == [Failed(f, "create", Cur(f).Name) EXCEPT
                      !.result = IF f.op = "Append"
                                 THEN AppendFailResult(f.result) ELSE f.result]
    IN
    /\ f.pc = "createWait"
    /\ \E outcome \in {"ok", "error", "lost"} :
          IF outcome = "error" \/ ~accepts
          THEN /\ Set(c, failed)
               /\ UNCHANGED vendor
          ELSE /\ vendorRecords' = Append(vendorRecords, createdRec)
               /\ nextID' = nextID + 1
               /\ UNCHANGED vendorZones
               /\ IF outcome = "lost"
                  THEN Set(c, failed)
                  ELSE Set(c, [f EXCEPT !.pc = LoopPc(f.recs, f.idx + 1), !.req = NoReq,
                                        !.idx = @ + 1,
                                        !.made = Append(@, createdRec),
                                        !.result = Append(@, toLibdnsRecord(createdRec, f.zone))])
    /\ UNCHANGED <<provider, history, nInv, conv, parse>>

\* the answer to UpdateRecord
RecvUpdate(c) ==
    LET f == frame[c]
        updatedRec == VendorCreated(f.req.recordID, f.req.zoneID, f.req.body)
        accepts == VendorHasRecord(vendorRecords, f.req.zoneID, f.req.recordID)
        failed == Failed(f, "update", Cur(f).Name)
    IN
    /\ f.pc = "updateWait"
    /\ \E outcome \in {"ok", "error", "lost"} :
          IF outcome = "error" \/ ~accepts
          THEN /\ Set(c, failed)
               /\ UNCHANGED vendor
          ELSE /\ vendorRecords' = VendorUpdate(vendorRecords, f.req.zoneID,
                                                f.req.recordID, f.req.body)
               /\ UNCHANGED <<vendorZones, nextID>>
               /\ IF outcome = "lost"
                  THEN Set(c, failed)
                  ELSE Set(c, [f EXCEPT !.pc = LoopPc(f.recs, f.idx + 1), !.req = NoReq,
                                        !.idx = @ + 1,
                                        !.result = Append(@, toLibdnsRecord(updatedRec, f.zone))])
    /\ UNCHANGED <<provider, history, nInv, conv, parse>>

\* the answer to DeleteRecord (its body is not read)
RecvDelete(c) ==
    LET f == frame[c]
        accepts == VendorHasRecord(vendorRecords, f.req.zoneID, f.req.recordID)
    IN
    /\ f.pc = "deleteWait"
    /\ \E ok \in BOOLEAN :
          IF ~ok \/ ~accepts
          THEN /\ Set(c, Failed(f, "delete", Cur(f).Name))
               /\ UNCHANGED vendor
          ELSE /\ vendorRecords' = VendorDelete(vendorRecords, f.req.zoneID, f.req.recordID)
               /\ UNCHANGED <<vendorZones, nextID>>
               /\ Set(c, [f EXCEPT !.pc = LoopPc(f.recs, f.idx + 1), !.req = NoReq,
                                        !.idx = @ + 1,
                                   !.result = Append(@, DeletedEntry(f))])
    /\ UNCHANGED <<provider, history, nInv, conv, parse>>

\* the operation has returned to its caller
Return(c) ==
    LET f == frame[c] IN
    /\ f.pc = "done"
    /\ Set(c, IdleFrame)
    /\ prev' = IF f.op = "Set" /\ Len(f.recs) = 1 /\ f.err = NoErr
               THEN [set |-> TRUE, zfail |-> FALSE, zone |-> TrimSuffix(f.zone, Dot),
                     rec |-> f.recs[1], fresh |-> f.fresh,
                     cr |-> f.calls.cr, up |-> f.calls.up]
               ELSE IF f.err.kind \in {"listZones", "zoneNotFound"}
               THEN [NoPrev EXCEPT !.zfail = TRUE, !.zone = TrimSuffix(f.zone, Dot)]
               ELSE NoPrev
    /\ UNCHANGED <<provider, vendor, resolved, lzTotal, nInv, conv, parse>>

(***************************************************************************)
(* Specifications.                                                         *)
(***************************************************************************)
\* callers that share the Provider and run their operations concurrently
Next ==
    \/ \E c \in Callers : Begin(c)
    \/ \E c \in Callers : EnsureClient(c)
    \/ \E c \in Callers : NewClient(c)
    \/ \E c \in Callers : RLock(c)
    \/ \E c \in Callers : Lookup(c)
    \/ \E c \in Callers : SendListZones(c)
    \/ \E c \in Callers : RecvListZones(c)
    \/ \E c \in Callers : Lock(c)
    \/ \E c \in Callers : Insert(c)
    \/ \E c \in Callers : SendListRecords(c)
    \/ \E c \in Callers : RecvListRecords(c)
    \/ \E c \in Callers : SendCreate(c)
    \/ \E c \in Callers : SendUpdate(c)
    \/ \E c \in Callers : SendDelete(c)
    \/ \E c \in Callers : SkipDelete(c)
    \/ \E c \in Callers : RecvCreate(c)
    \/ \E c \in Callers : RecvUpdate(c)
    \/ \E c \in Callers : RecvDelete(c)
    \/ \E c \in Callers : Return(c)

Spec == Init /\ [][Next]_vars

\* one caller that runs one operation after the other
SeqNext ==
    \/ SeqBegin(1)
    \/ EnsureClient(1)
    \/ NewClient(1)
    \/ RLock(1)
    \/ Lookup(1)
    \/ SendListZones(1)
    \/ RecvListZones(1)
    \/ Lock(1)
    \/ Insert(1)
    \/ SendListRecords(1)
    \/ RecvListRecords(1)
    \/ SendCreate(1)
    \/ SendUpdate(1)
    \/ SendDelete(1)
    \/ SkipDelete(1)
    \/ RecvCreate(1)
    \/ RecvUpdate(1)
    \/ RecvDelete(1)
    \/ Return(1)

SeqSpec == Init /\ [][SeqNext]_vars

(***************************************************************************)
(* The vendor's zone list changes while the Provider is in use: the account *)
(* owner deletes a zone, its records with it, and creates it again, and    *)
(* the vendor gives it a new ID.                                           *)
(***************************************************************************)
InitialZoneIDs == {7, 8}

VendorRecreateZone ==
    /\ Cardinality({j \in DOMAIN vendorZones :
                       vendorZones[j].ID \notin InitialZoneIDs}) < MaxZoneChanges
    /\ \E i \in DOMAIN vendorZones :
          /\ vendorZones[i].ID \in InitialZoneIDs
          /\ vendorZones' = [vendorZones EXCEPT ![i].ID = @ + Cardinality(InitialZoneIDs)]
          /\ vendorRecords' =
                SelectSeq(vendorRecords, LAMBDA r : r.ZoneID # vendorZones[i].ID)
    /\ UNCHANGED <<provider, nextID, frame, history, nInv, conv, parse>>

ZoneNext == Next \/ VendorRecreateZone

ZoneSpec == Init /\ [][ZoneNext]_vars

(***************************************************************************)
(* The record translator on its own: a generic record and a zone are       *)
(* drawn, fromLibdnsRecord is applied, and toLibdnsRecord to its result;   *)
(* or a record of the vendor's listing of the zone and a spelling of the   *)
(* zone are drawn, toLibdnsRecord is applied as GetRecords does, and       *)
(* matchesRecord to the listed record and the result, as DeleteRecords     *)
(* does with it.                                                           *)
(***************************************************************************)
ConvNames == {Empty, At, Test, WwwDot, <<"a">>, TestExampleCom}
ConvZones == {ExampleCom, ExampleComDot, OtherOrg, OtherOrgDot}
ConvTTLs == {k * (Second \div 2) : k \in (-MaxHalfSeconds)..MaxHalfSeconds}
                \cup {3600 * Second}
ConvRecords ==
    [ID : {Empty}, Type : {"A", "TXT"}, Name : ConvNames, Value : {"192.0.2.1"},
     TTL : ConvTTLs]

\* the vendor's records of the zone: at the apex and below it
ConvListed(z) ==
    [ID : {1}, Name : {StripDot(z), Test \o Dot \o StripDot(z)},
     Type : {"A", "TXT"}, Content : {"192.0.2.1"}, TTL : {300, DefaultTTL},
     ZoneID : {7}]

ConvInit ==
    /\ Email = "user@example.com"
    /\ APIKey = "key"
    /\ client = NoClient
    /\ zoneCache = <<>>
    /\ zoneCacheMu = NoMu
    /\ vendorZones = <<>>
    /\ vendorRecords = <<>>
    /\ nextID = 1
    /\ frame = [c \in Callers |-> IdleFrame]
    /\ resolved = {}
    /\ lzTotal = [z \in NormZones |-> 0]
    /\ prev = NoPrev
    /\ nInv = 0
    /\ parse = IdleParse
    /\ \/ \E r \in ConvRecords, z \in ConvZones :
             conv = [IdleConv EXCEPT !.stage = "in", !.rec = r, !.zone = z]
       \/ \E z \in ConvZones : \E v \in ConvListed(z) :
             conv = [IdleConv EXCEPT !.stage = "listed", !.api = v, !.zone = z]

ConvFrom ==
    /\ conv.stage = "in"
    /\ conv' = [conv EXCEPT !.stage = "vendor",
                            !.api = fromLibdnsRecord(conv.rec, conv.zone)]
    /\ UNCHANGED <<provider, vendor, frame, history, nInv, parse>>

ConvTo ==
    /\ conv.stage = "vendor"
    /\ conv' = [conv EXCEPT !.stage = "back",
                            !.out = toLibdnsRecord(conv.api, conv.zone)]
    /\ UNCHANGED <<provider, vendor, frame, history, nInv, parse>>

\* GetRecords: records = append(records, toLibdnsRecord(r, zone))
ConvGet ==
    /\ conv.stage = "listed"
    /\ conv' = [conv EXCEPT !.stage = "got",
                            !.out = toLibdnsRecord(conv.api, conv.zone)]
    /\ UNCHANGED <<provider, vendor, frame, history, nInv, parse>>

\* DeleteRecords: matchesRecord(existing, rec, zone)
ConvMatch ==
    /\ conv.stage = "got"
    /\ conv' = [conv EXCEPT !.stage = "matched",
                            !.match = matchesRecord(conv.api, conv.out, conv.zone)]
    /\ UNCHANGED <<provider, vendor, frame, history, nInv, parse>>

ConvNext == ConvFrom \/ ConvTo \/ ConvGet \/ ConvMatch

ConvSpec == ConvInit /\ [][ConvNext]_vars

(***************************************************************************)
(* The Caddy module (module.go): UnmarshalCaddyfile reads the tokens of the *)
(* Caddyfile through a Dispenser and fills Email and APIKey of the         *)
(* Provider it wraps.  The tokens are drawn as the parser asks for them: a *)
(* directive with the arguments on its line, then the lines of its block,  *)
(* each a subdirective with the arguments on its line.  A quoted empty     *)
(* string is a token like any other.                                       *)
(***************************************************************************)
TokenValues == {"", "user@example.com", "key"}

\* the arguments on one line
ArgLists == UNION {[1..n -> TokenValues] : n \in 0..MaxArgs}

\* d.ArgErr(), d.Err(...), d.Errf(...)
ArgErr == "wrong argument count"
EmailAlreadySet == "email already set"
APIKeyAlreadySet == "API key already set"
Unrecognized == "unrecognized subdirective"
MissingEmail == "missing email"
MissingAPIKey == "missing API key"

\* `if p.Provider.Email != ""`, `if p.Provider.APIKey != ""` in the block
AlreadySetNever(field) == FALSE
AlreadySet(field) == field # ""

\* the Provider of a new module: CaddyModule's New
CaddyInit ==
    /\ Email = ""
    /\ APIKey = ""
    /\ client = NoClient
    /\ zoneCache = <<>>
    /\ zoneCacheMu = NoMu
    /\ vendorZones = <<>>
    /\ vendorRecords = <<>>
    /\ nextID = 1
    /\ frame = [c \in Callers |-> IdleFrame]
    /\ resolved = {}
    /\ lzTotal = [z \in NormZones |-> 0]
    /\ prev = NoPrev
    /\ nInv = 0
    /\ conv = IdleConv
    /\ parse = [IdleParse EXCEPT !.pc = "next"]

CaddyRest == <<client, zoneCache, zoneCacheMu, vendor, frame, history, nInv, conv>>

\* the parser returns the error
ParseFails(ps, err) == [ps EXCEPT !.pc = "returned", !.err = err]

\* `for d.Next()` finds a directive: its arguments, the inline form
CaddyDirective ==
    /\ parse.pc = "next"
    /\ parse.dirs < MaxDirectives
    /\ \E args \in ArgLists :
          LET ps == [parse EXCEPT
                       !.dirs = @ + 1,
                       !.inline = @ + (IF Len(args) = 2 THEN 1 ELSE 0),
                       !.badInline = @ \/ Len(args) \notin {0, 2},
                       !.emailGiven = IF Len(args) = 2 THEN args[1] # "" ELSE @,
                       !.keyGiven = IF Len(args) = 2 THEN args[2] # "" ELSE @]
          IN  IF Len(args) = 2
              THEN /\ Email' = args[1]
                   /\ APIKey' = args[2]
                   /\ parse' = [ps EXCEPT !.pc = "block"]
              ELSE IF Len(args) > 0
              THEN /\ parse' = ParseFails(ps, ArgErr)
                   /\ UNCHANGED <<Email, APIKey>>
              ELSE /\ parse' = [ps EXCEPT !.pc = "block"]
                   /\ UNCHANGED <<Email, APIKey>>
    /\ UNCHANGED CaddyRest

\* d.NextBlock finds a line, case "email"
CaddyEmail ==
    /\ parse.pc = "block"
    /\ parse.emails + parse.keys < MaxLines
    /\ \E args \in ArgLists :
          LET ps == [parse EXCEPT
                       !.emails = @ + 1,
                       !.again = @ \/ parse.emailGiven,
                       !.badSub = @ \/ Len(args) # 1,
                       !.emailGiven = @ \/ (Len(args) >= 1 /\ args[1] # "")]
          IN  IF AlreadySet(Email)
              THEN /\ parse' = ParseFails(ps, EmailAlreadySet)
                   /\ UNCHANGED Email
              ELSE IF Len(args) = 0
              THEN /\ parse' = ParseFails(ps, ArgErr)
                   /\ UNCHANGED Email
              ELSE /\ Email' = args[1]
                   /\ parse' = IF Len(args) > 1 THEN ParseFails(ps, ArgErr) ELSE ps
    /\ UNCHANGED APIKey
    /\ UNCHANGED CaddyRest

\* d.NextBlock finds a line, case "api_key"
CaddyAPIKey ==
    /\ parse.pc = "block"
    /\ parse.emails + parse.keys < MaxLines
    /\ \E args \in ArgLists :
          LET ps == [parse EXCEPT
                       !.keys = @ + 1,
                       !.again = @ \/ parse.keyGiven,
                       !.badSub = @ \/ Len(args) # 1,
                       !.keyGiven = @ \/ (Len(args) >= 1 /\ args[1] # "")]
          IN  IF AlreadySet(APIKey)
              THEN /\ parse' = ParseFails(ps, APIKeyAlreadySet)
                   /\ UNCHANGED APIKey
              ELSE IF Len(args) = 0
              THEN /\ parse' = ParseFails(ps, ArgErr)
                   /\ UNCHANGED APIKey
              ELSE /\ APIKey' = args[1]
                   /\ parse' = IF Len(args) > 1 THEN ParseFails(ps, ArgErr) ELSE ps
    /\ UNCHANGED Email
    /\ UNCHANGED CaddyRest

\* d.NextBlock finds a line, default case
CaddyUnknown ==
    /\ parse.pc = "block"
    /\ parse' = ParseFails([parse EXCEPT !.unknown = TRUE], Unrecognized)
    /\ UNCHANGED <<Email, APIKey>>
    /\ UNCHANGED CaddyRest

\* d.NextBlock finds the end of the block, or no block
CaddyEndBlock ==
    /\ parse.pc = "block"
    /\ parse' = [parse EXCEPT !.pc = "next"]
    /\ UNCHANGED <<Email, APIKey>>
    /\ UNCHANGED CaddyRest

\* `for d.Next()` finds no further token: the required fields are validated
CaddyValidate ==
    /\ parse.pc = "next"
    /\ parse' = IF Email = "" THEN ParseFails(parse, MissingEmail)
                ELSE IF APIKey = "" THEN ParseFails(parse, MissingAPIKey)
                ELSE [parse EXCEPT !.pc = "returned"]
    /\ UNCHANGED <<Email, APIKey>>
    /\ UNCHANGED CaddyRest

CaddyNext ==
    \/ CaddyDirective
    \/ CaddyEmail
    \/ CaddyAPIKey
    \/ CaddyUnknown
    \/ CaddyEndBlock
    \/ CaddyValidate

CaddySpec == CaddyInit /\ [][CaddyNext]_vars

(***************************************************************************)
(* Vocabulary of the properties.                                           *)
(***************************************************************************)
\* the zone an invocation is about, whichever way the caller wrote it
ZoneOf(f) == StripDot(f.zone)

\* the invocation's resolution of its zone has succeeded
ZoneKnown(f) ==
    \/ f.pc \in {"listRecords", "listRecordsWait", "loop", "createWait",
                 "updateWait", "deleteWait"}
    \/ f.pc = "done" /\ f.err.kind \notin {"config", "listZones", "zoneNotFound"}

\* the invocation has issued no HTTP call that changes the vendor's records
NoMutation(f) == f.calls.cr = 0 /\ f.calls.up = 0 /\ f.calls.de = 0

\* no input of the invocation has the fully-qualified name and the type of a
\* record of its listing
NoneListed(f) ==
    \A i \in DOMAIN f.recs : \A j \in DOMAIN f.existing :
        ~(/\ f.existing[j].Name = ConstructFQDN(f.recs[i].Name, f.zone)
          /\ f.existing[j].Type = f.recs[i].Type)

\* the invocation is a single-record SetRecords that returned no error, and so
\* was the invocation before it, with the same record and zone, begun when the
\* vendor held no record of that name and type
SecondSetOfSame(f) ==
    /\ f.pc = "done" /\ f.op = "Set" /\ Len(f.recs) = 1 /\ f.err = NoErr
    /\ prev.set /\ prev.fresh
    /\ prev.zone = ZoneOf(f)
    /\ prev.rec = f.recs[1]

\* fq without the "." + zone it ends with
RelativeName(fq, zone) ==
    LET suffix == Dot \o StripDot(zone) IN
    IF Len(fq) >= Len(suffix)
          /\ SubSeq(fq, Len(fq) - Len(suffix) + 1, Len(fq)) = suffix
    THEN SubSeq(fq, 1, Len(fq) - Len(suffix))
    ELSE fq

\* d truncated to whole seconds, toward zero
WholeSeconds(d) ==
    CHOOSE t \in (-MaxHalfSeconds - 1)..3600 :
        \/ d >= 0 /\ t >= 0 /\ t * Second <= d /\ d < (t + 1) * Second
        \/ d < 0 /\ t <= 0 /\ (t - 1) * Second < d /\ d <= t * Second

\* the caller holds the zone-cache lock, for reading or for writing
HoldsLock(c) == c \in zoneCacheMu.readers \/ zoneCacheMu.writer = c

\* the access to a field of the Provider that the caller's next step makes:
\* the field, whether it is written, and whether the caller holds the lock
Access(c) ==
    LET f == frame[c]
        at(field, write) ==
            {[field |-> field, write |-> write, locked |-> HoldsLock(c)]}
    IN  IF f.pc = "ensure" /\ ~CredentialsMissing(Email, APIKey)
        THEN at("client", FALSE)
        ELSE IF f.pc = "newClient" THEN at("client", TRUE)
        ELSE IF f.pc \in {"listZones", "listRecords"} THEN at("client", FALSE)
        ELSE IF f.pc = "loop" /\ ~(f.op = "Delete" /\ FirstMatchID(f.existing, Cur(f), f.zone) = 0)
        THEN at("client", FALSE)
        ELSE IF f.pc = "lookup" THEN at("zoneCache", FALSE)
        ELSE IF f.pc = "insert" THEN at("zoneCache", TRUE)
        ELSE {}

\* two callers are about to access the same field, one of them writing it,
\* and not both under the lock
DataRace(field) ==
    \E c, d \in Callers : \E a \in Access(c), b \in Access(d) :
        /\ c # d
        /\ a.field = field /\ b.field = field
        /\ a.write \/ b.write
        /\ ~(a.locked /\ b.locked)

\* the calls of a log that change the vendor's records, and the others
Mutations(log) ==
    SelectSeq(log, LAMBDA e : e.kind \in {"Create", "Update", "Delete"})
Lookups(log) ==
    SelectSeq(log, LAMBDA e : e.kind \in {"ListZones", "ListRecords"})

\* the positions in the invocation's listing of the records that have the
\* fully-qualified name and the type of its i-th input
ListedMatches(f, i) ==
    {j \in DOMAIN f.existing :
        /\ f.existing[j].Name = ConstructFQDN(f.recs[i].Name, f.zone)
        /\ f.existing[j].Type = f.recs[i].Type}

\* the first of them in listing order
FirstListed(f, i) ==
    f.existing[CHOOSE j \in ListedMatches(f, i) : \A k \in ListedMatches(f, i) : j <= k]

\* the call SetRecords is to issue for its i-th input
ExpectedSetCall(f, i) ==
    IF ListedMatches(f, i) = {} THEN Call("Create", 0, i)
    ELSE Call("Update", FirstListed(f, i).ID, i)

\* the invocation's call for its input at idx has been issued, and the loop
\* has not moved on
AtCall(f) ==
    \/ f.pc \in {"createWait", "updateWait", "deleteWait"}
    \/ f.pc = "done" /\ f.err.kind \in {"create", "update", "delete"}

\* the inputs at positions 1..n of the invocation that have a listed match,
\* in input order
RECURSIVE MatchedInputs(_, _)
MatchedInputs(f, n) ==
    IF n = 0 THEN <<>>
    ELSE IF ListedMatches(f, n) # {} THEN Append(MatchedInputs(f, n - 1), f.recs[n])
    ELSE MatchedInputs(f, n - 1)

\* the vendor has no zone of that name, trailing dots aside
NoVendorZone(z) ==
    \A i \in DOMAIN vendorZones : StripDot(vendorZones[i].Name) # z

\* the invocation's zone resolution has ended, one way or the other
PastResolution(f) ==
    f.pc \notin {"idle", "ensure", "newClient", "rlock", "lookup", "listZones",
                 "listZonesWait"}

\* the records other than the one with that ID, in listing order
Others(records, recordID) ==
    SelectSeq(records, LAMBDA r : r.ID # recordID)

\* the records with that ID
WithID(records, recordID) ==
    SelectSeq(records, LAMBDA r : r.ID = recordID)

\* the kinds of mutation call an operation issues
MutationKinds(op) ==
    CASE op = "Append" -> {"Create"}
      [] op = "Set" -> {"Create", "Update"}
      [] op = "Delete" -> {"Delete"}
      [] OTHER -> {}

\* the lookups an operation may have issued before its first mutation
LookupPrefixes(op) ==
    IF op = "Append" THEN {<<>>, <<Call("ListZones", 0, 0)>>}
    ELSE {<<>>, <<Call("ListZones", 0, 0)>>, <<Call("ListRecords", 0, 0)>>,
          <<Call("ListZones", 0, 0), Call("ListRecords", 0, 0)>>}

\* the invocation has a request in flight
InFlight(f) == f.req # NoReq

\* the tokens read were the inline form: one directive, two non-empty
\* arguments, no block line
InlineForm(ps) ==
    /\ ps.dirs = 1 /\ ps.inline = 1
    /\ ps.emails = 0 /\ ps.keys = 0 /\ ~ps.unknown
    /\ ps.emailGiven /\ ps.keyGiven

\* the tokens read were the block form: one directive without arguments, and
\* in its block one `email` and one `api_key` line, each with one non-empty
\* argument
BlockForm(ps) ==
    /\ ps.dirs = 1 /\ ps.inline = 0 /\ ~ps.badInline
    /\ ps.emails = 1 /\ ps.keys = 1 /\ ~ps.badSub /\ ~ps.unknown
    /\ ps.emailGiven /\ ps.keyGiven

(***************************************************************************)
(* C1. Used sequentially, the first successful resolution of a zone issues *)
(* exactly one list-zones call and every later resolution of that zone,    *)
(* written with or without its trailing dot, issues none.                  *)
(***************************************************************************)
C1_FirstResolutionListsOnce ==
    \A c \in Callers :
        ZoneKnown(frame[c]) =>
            frame[c].calls.lz = IF frame[c].first THEN 1 ELSE 0

\* a later resolution, of the zone written with its dot, has issued no call
C1_Witness ==
    \E c \in Callers :
        /\ ZoneKnown(frame[c])
        /\ frame[c].zone = ExampleComDot
        /\ ~frame[c].first
        /\ frame[c].calls.lz = 0
        /\ lzTotal[ExampleCom] = 1

(***************************************************************************)
(* C2. As claimed: over every interleaving of concurrent operations, at    *)
(* most one list-zones call is ever issued for a zone.                     *)
(***************************************************************************)
C2_AtMostOneListZones ==
    \A z \in NormZones : lzTotal[z] <= 1

(***************************************************************************)
(* C2, amended. A resolution that looks the zone up in the cache after a   *)
(* resolution of that zone has succeeded does not miss, and so issues no   *)
(* list-zones call: such calls come only from resolutions that looked the  *)
(* zone up before the first success.                                       *)
(***************************************************************************)
C2_NoListZonesOnceResolved ==
    [][\A c \in Callers :
          (frame[c].pc = "lookup" /\ ZoneOf(frame[c]) \in resolved)
              => (frame'[c].pc # "listZones" /\ lzTotal' = lzTotal)]_vars

\* two callers at once: one has listed the zones, the other found the zone cached
C2_Witness ==
    \E c, d \in Callers :
        /\ c # d
        /\ ZoneKnown(frame[c]) /\ frame[c].calls.lz = 1
        /\ ZoneKnown(frame[d]) /\ frame[d].calls.lz = 0
        /\ ZoneOf(frame[c]) = ZoneOf(frame[d])

(***************************************************************************)
(* C3. With Email or APIKey empty, every operation returns a configuration *)
(* error and no result, issues no HTTP call and leaves the zone cache as   *)
(* it was.                                                                 *)
(***************************************************************************)
C3_MissingCredentials ==
    (Email = "" \/ APIKey = "") =>
        /\ zoneCache = <<>>
        /\ \A z \in NormZones : lzTotal[z] = 0
        /\ \A c \in Callers :
              /\ frame[c].pc \in {"idle", "ensure", "done"}
              /\ frame[c].calls = ZeroCalls
              /\ frame[c].req = NoReq
              /\ frame[c].pc = "done" =>
                    frame[c].err.kind = "config" /\ frame[c].result = <<>>

C3_Witness ==
    \E c \in Callers :
        /\ Email # "" /\ APIKey = ""
        /\ frame[c].pc = "done"
        /\ frame[c].op = "Set"
        /\ frame[c].err.kind = "config"

(***************************************************************************)
(* C4. AppendRecords whose Nth create call is the first to fail returns    *)
(* the N-1 records the first N-1 create calls created, translated and in   *)
(* input order, with an error naming the Nth record; it has issued N       *)
(* create calls and no other call that changes a record.                   *)
(***************************************************************************)
C4_AppendPartialFailure ==
    \A c \in Callers :
        LET f == frame[c] IN
        (f.pc = "done" /\ f.op = "Append" /\ f.err.kind = "create") =>
            /\ f.idx \in DOMAIN f.recs
            /\ f.calls.cr = f.idx
            /\ f.calls.up = 0 /\ f.calls.de = 0
            /\ f.err.name = f.recs[f.idx].Name
            /\ Len(f.made) = f.idx - 1
            /\ f.result = [i \in 1..(f.idx - 1) |-> toLibdnsRecord(f.made[i], f.zone)]
            /\ \A i \in 1..(f.idx - 1) :
                  /\ f.made[i].Type = f.recs[i].Type
                  /\ f.made[i].Content = f.recs[i].Value

\* three inputs, the second create call fails: one record and an error
C4_Witness ==
    \E c \in Callers :
        LET f == frame[c] IN
        /\ f.pc = "done" /\ f.op = "Append" /\ f.err.kind = "create"
        /\ Len(f.recs) = 3
        /\ f.idx = 2
        /\ Len(f.result) = 1

(***************************************************************************)
(* C5. DeleteRecords with inputs none of which has the fully-qualified     *)
(* name and type of a listed record returns an empty result and no error,  *)
(* issues no delete call and leaves the vendor's records as they are.      *)
(***************************************************************************)
C5_DeleteUnmatchedIsNoOp ==
    \A c \in Callers :
        LET f == frame[c] IN
        (f.pc = "done" /\ f.op = "Delete" /\ f.listed /\ NoneListed(f)) =>
            /\ f.err = NoErr
            /\ f.result = <<>>
            /\ NoMutation(f)
            /\ vendorRecords = f.before

\* the zone holds records, none of them the input's
C5_Witness ==
    \E c \in Callers :
        LET f == frame[c] IN
        /\ f.pc = "done" /\ f.op = "Delete" /\ f.listed /\ NoneListed(f)
        /\ f.existing # <<>>
        /\ Len(f.recs) = 2
        /\ f.result = <<>>

(***************************************************************************)
(* C6. SetRecords called twice in succession with the same single record,  *)
(* on a zone that had no record of that name and type and has no other     *)
(* writer: the first invocation issues one create call and no update, the  *)
(* second one update call and no create.                                   *)
(***************************************************************************)
C6_SetTwiceCreatesThenUpdates ==
    \A c \in Callers :
        SecondSetOfSame(frame[c]) =>
            /\ prev.cr = 1 /\ prev.up = 0
            /\ frame[c].calls.cr = 0 /\ frame[c].calls.up = 1

C6_Witness ==
    \E c \in Callers :
        /\ SecondSetOfSame(frame[c])
        /\ frame[c].zone = ExampleComDot
        /\ frame[c].calls.up = 1

(***************************************************************************)
(* C7. GetRecords returns, for every listed vendor record and in listing   *)
(* order, the record with the zone-relative name, the decimal ID, the      *)
(* content as value and the TTL in seconds, also when the zone is written  *)
(* with its trailing dot.                                                  *)
(***************************************************************************)
C7_GetRecordsTranslates ==
    \A c \in Callers :
        LET f == frame[c] IN
        (f.pc = "done" /\ f.op = "Get" /\ f.err = NoErr) =>
            f.result = [i \in DOMAIN f.existing |->
                           [ID |-> FormatInt(f.existing[i].ID),
                            Type |-> f.existing[i].Type,
                            Name |-> RelativeName(f.existing[i].Name, f.zone),
                            Value |-> f.existing[i].Content,
                            TTL |-> f.existing[i].TTL * Second]]

(***************************************************************************)
(* C8. For every relative name n other than "" and "@" and every zone z,   *)
(* translating {Name: n} to the vendor's form and back gives n again.      *)
(***************************************************************************)
C8_NameRoundTrip ==
    (conv.stage = "back" /\ conv.rec.Name \notin {Empty, At}) =>
        conv.out.Name = conv.rec.Name

(***************************************************************************)
(* C9. As claimed: "@" and "" give the vendor name z, and any other name r *)
(* gives r + "." + z with a trailing dot removed.                          *)
(***************************************************************************)
C9_VendorNameAsClaimed ==
    conv.stage = "vendor" =>
        conv.api.Name = IF conv.rec.Name \in {Empty, At}
                        THEN conv.zone
                        ELSE StripDot(conv.rec.Name \o Dot \o conv.zone)

(***************************************************************************)
(* C9, amended. "@" and "" give the vendor name z with one trailing dot    *)
(* removed; any other name r that does not end in a dot gives              *)
(* r + "." + z with one trailing dot removed; a name that ends in a dot    *)
(* gives itself with that dot removed.                                     *)
(***************************************************************************)
C9_VendorName ==
    conv.stage = "vendor" =>
        LET r == conv.rec.Name
            z == conv.zone
        IN  conv.api.Name =
                IF r \in {Empty, At} THEN StripDot(z)
                ELSE IF r[Len(r)] # "." THEN StripDot(r \o Dot \o z)
                ELSE StripDot(r)

\* the apex of a zone written with its dot
C9_Witness ==
    /\ conv.stage = "vendor"
    /\ conv.rec.Name = Empty
    /\ conv.zone = ExampleComDot
    /\ conv.api.Name = ExampleCom

(***************************************************************************)
(* C10. The vendor TTL is 3600 when the generic TTL truncated to whole     *)
(* seconds is 0, and the truncated number of seconds otherwise.            *)
(***************************************************************************)
C10_DefaultTTL ==
    conv.stage = "vendor" =>
        LET t == WholeSeconds(conv.rec.TTL)
        IN  conv.api.TTL = IF t = 0 THEN 3600 ELSE t

\* a negative sub-second TTL truncates to 0
C10_Witness ==
    /\ conv.stage = "vendor"
    /\ conv.rec.TTL = -(Second \div 2)
    /\ conv.api.TTL = 3600

(***************************************************************************)
(* C11. Under every interleaving of concurrent operations, a caller that   *)
(* holds the zone-cache lock, for reading or for writing, has no HTTP      *)
(* request in flight: the read lock is held only at the map lookup and the *)
(* write lock only at the insertion, and an operation that has returned,   *)
(* on whichever path, holds neither.                                       *)
(***************************************************************************)
C11_NoLockAcrossCall ==
    \A c \in Callers :
        /\ HoldsLock(c) => frame[c].req = NoReq
        /\ c \in zoneCacheMu.readers => frame[c].pc = "lookup"
        /\ zoneCacheMu.writer = c => frame[c].pc = "insert"
        /\ frame[c].pc \in {"idle", "done"} => ~HoldsLock(c)

\* one caller is inserting under the write lock while the other's request is
\* in flight
C11_Witness ==
    \E c, d \in Callers :
        /\ zoneCacheMu.writer = c
        /\ frame[c].calls.lz = 1
        /\ frame[d].req # NoReq

(***************************************************************************)
(* C12. When several callers run operations concurrently on one Provider,  *)
(* every access to a field that some caller writes is made under the       *)
(* reader/writer lock: no two callers are ever about to access the same    *)
(* field, the zone cache or the lazily created client, one of them writing *)
(* it, unless both hold the lock.                                          *)
(***************************************************************************)
C12_SharedStateUnderLock ==
    ~DataRace("zoneCache") /\ ~DataRace("client")

(***************************************************************************)
(* C13. A SetRecords invocation issues at most one list-records call, and  *)
(* exactly one before its first mutation; then, input by input and in      *)
(* input order, exactly one mutation call: an update of the first listed   *)
(* record with the input's fully-qualified name and type, or a create when *)
(* the listing has none.  The listing is the one taken up front, so two    *)
(* inputs with the same name and type, absent from it, give two creates.   *)
(***************************************************************************)
C13_SetListsOnceThenMutates ==
    \A c \in Callers :
        LET f == frame[c]
            mut == Mutations(f.log)
            pre == Lookups(f.log)
        IN  f.op = "Set" =>
              /\ f.calls.lr <= 1
              /\ f.log = pre \o mut
              /\ mut # <<>> =>
                    /\ f.listed /\ f.calls.lr = 1
                    /\ pre[Len(pre)].kind = "ListRecords"
              /\ mut = [i \in 1..Len(mut) |-> ExpectedSetCall(f, i)]
              /\ Len(mut) = IF AtCall(f) THEN f.idx
                            ELSE IF f.listed THEN f.idx - 1 ELSE 0
              /\ (f.pc = "done" /\ f.err = NoErr) =>
                    f.calls.lr = 1 /\ Len(mut) = Len(f.recs)

\* two inputs called test, of type A, on a zone that has no such record:
\* two creates, and the vendor now holds two such records
C13_Witness ==
    \E c \in Callers :
        LET f == frame[c] IN
        /\ f.pc = "done" /\ f.op = "Set" /\ f.err = NoErr
        /\ f.recs = <<RecA, RecB>>
        /\ f.existing = <<>>
        /\ f.calls.cr = 2 /\ f.calls.up = 0
        /\ Len(vendorRecords) = 2
        /\ vendorRecords[1].Name = vendorRecords[2].Name
        /\ vendorRecords[1].Type = vendorRecords[2].Type

(***************************************************************************)
(* C14. DeleteRecords returns the caller's own input records, unmodified   *)
(* and in input order, for which the up-front listing has a match and the  *)
(* delete call succeeded.  Inputs without a match are skipped without an   *)
(* error.  When a delete call fails, the inputs deleted before it are      *)
(* returned with an error naming the failing input, and no further delete  *)
(* call is issued.                                                         *)
(***************************************************************************)
C14_DeleteReturnsDeletedInputs ==
    \A c \in Callers :
        LET f == frame[c] IN
        (f.pc = "done" /\ f.op = "Delete" /\ f.listed) =>
            \/ /\ f.err = NoErr
               /\ f.result = MatchedInputs(f, Len(f.recs))
               /\ f.calls.de = Len(f.result)
            \/ /\ f.err.kind = "delete"
               /\ f.idx \in DOMAIN f.recs
               /\ ListedMatches(f, f.idx) # {}
               /\ f.err.name = f.recs[f.idx].Name
               /\ f.result = MatchedInputs(f, f.idx - 1)
               /\ f.calls.de = Len(f.result) + 1

\* three inputs: the first is deleted, the second is not, because the
\* listing's only match for it is the record the first delete removed, and
\* the third is never tried
C14_Witness ==
    \E c \in Callers :
        LET f == frame[c] IN
        /\ f.pc = "done" /\ f.op = "Delete" /\ f.err.kind = "delete"
        /\ f.recs = <<RecA, RecB, RecC>>
        /\ f.idx = 2
        /\ f.result = <<RecA>>
        /\ f.calls.de = 2

(***************************************************************************)
(* C15. An operation whose list-zones call fails, or is answered without a *)
(* zone of the requested name (trailing dots aside), returns an error and  *)
(* no result, issues no record call and leaves the zone cache and the      *)
(* vendor's records as they were; the next resolution of that zone issues  *)
(* a list-zones call again.                                                *)
(***************************************************************************)
C15_ZoneLookupFailure ==
    \A c \in Callers :
        LET f == frame[c] IN
        /\ (PastResolution(f) /\ f.calls.lz = 1 /\ NoVendorZone(ZoneOf(f))) =>
              f.pc = "done" /\ f.err.kind \in {"listZones", "zoneNotFound"}
        /\ (f.pc = "done" /\ f.err.kind \in {"listZones", "zoneNotFound"}) =>
              /\ f.result = <<>>
              /\ f.log = <<Call("ListZones", 0, 0)>>
              /\ zoneCache = f.cacheBefore
              /\ ZoneOf(f) \notin DOMAIN zoneCache
              /\ vendorRecords = f.before
        /\ (prev.zfail /\ prev.zone = ZoneOf(f) /\ PastResolution(f)) =>
              f.calls.lz = 1

\* the zone was not found, and the next operation on it, written with its
\* dot, has listed the zones again
C15_Witness ==
    \E c \in Callers :
        LET f == frame[c] IN
        /\ prev.zfail /\ prev.zone = OtherOrg
        /\ ZoneOf(f) = OtherOrg
        /\ f.pc = "done" /\ f.err.kind = "zoneNotFound"
        /\ f.calls.lz = 1

(***************************************************************************)
(* C16. Once the zone cache maps a zone name to an ID, the name stays in   *)
(* the cache with that ID, under every interleaving of concurrent          *)
(* resolutions and whatever happens to the vendor's zone list.             *)
(***************************************************************************)
C16_CacheEntriesStable ==
    [][\A z \in DOMAIN zoneCache :
          z \in DOMAIN zoneCache' /\ zoneCache'[z] = zoneCache[z]]_vars

(***************************************************************************)
(* C17. When SetRecords issues an update or DeleteRecords a delete for an  *)
(* input, the call names the first record, in listing order, that has the  *)
(* input's fully-qualified name and type, whatever the input's value and   *)
(* TTL and however many listed records share that name and type; the call  *)
(* changes or removes that one record and leaves every other record of the *)
(* vendor as it is.                                                        *)
(***************************************************************************)
C17_FirstListedMatchOnly ==
    [][\A c \in Callers :
          LET f == frame[c]
              g == frame'[c]
              rid == f.req.recordID
          IN  /\ (f.pc = "loop" /\ g.pc \in {"updateWait", "deleteWait"}) =>
                    /\ ListedMatches(f, f.idx) # {}
                    /\ g.req.recordID = FirstListed(f, f.idx).ID
              /\ f.pc \in {"updateWait", "deleteWait"} =>
                    Others(vendorRecords', rid) = Others(vendorRecords, rid)
              /\ (f.pc = "updateWait" /\ g.err = NoErr) =>
                    /\ Len(vendorRecords') = Len(vendorRecords)
                    /\ Len(WithID(vendorRecords', rid)) = 1
                    /\ WithID(vendorRecords', rid)[1].Content = Cur(f).Value
              /\ (f.pc = "deleteWait" /\ g.err = NoErr) =>
                    /\ Len(WithID(vendorRecords, rid)) = 1
                    /\ WithID(vendorRecords', rid) = <<>>]_vars

\* two listed records are called test.example.com and are of type A; the
\* input has the value of the second; the first has been deleted and the
\* second is still there
C17_Witness ==
    \E c \in Callers :
        LET f == frame[c] IN
        /\ f.op = "Delete" /\ f.pc = "done" /\ f.err = NoErr
        /\ f.recs = <<RecB>>
        /\ Len(f.existing) = 2
        /\ ListedMatches(f, 1) = {1, 2}
        /\ f.existing[1].Content # RecB.Value
        /\ f.existing[2].Content = RecB.Value
        /\ f.log[Len(f.log)] = Call("Delete", f.existing[1].ID, 1)
        /\ vendorRecords = <<f.existing[2]>>

(***************************************************************************)
(* C18. Within one invocation the HTTP calls are issued one at a time and  *)
(* in this order: the list-zones call if the zone is not cached, the       *)
(* list-records call (not in AppendRecords), then the mutation calls, of   *)
(* the operation's kind, for inputs in input order.  The first call that   *)
(* fails ends the invocation: no call follows it, and the results returned *)
(* are those of the inputs before the failing one, in input order.         *)
(***************************************************************************)
C18_CallsInOrderUntilFailure ==
    \A c \in Callers :
        LET f == frame[c]
            mut == Mutations(f.log)
            pre == Lookups(f.log)
            n == Len(f.log)
        IN  /\ f.log = pre \o mut
            /\ pre \in LookupPrefixes(f.op)
            /\ \A i \in DOMAIN mut : mut[i].kind \in MutationKinds(f.op)
            /\ \A i, j \in DOMAIN mut : i < j => mut[i].idx < mut[j].idx
            /\ f.op \in {"Append", "Set"} => \A i \in DOMAIN mut : mut[i].idx = i
            /\ InFlight(f) <=>
                  f.pc \in {"listZonesWait", "listRecordsWait", "createWait",
                            "updateWait", "deleteWait"}
            /\ InFlight(f) => n > 0 /\ f.log[n].kind = f.req.kind
            /\ f.err # NoErr =>
                  /\ f.pc = "done" /\ ~InFlight(f)
                  /\ f.err.kind # "config" =>
                        n > 0 /\ f.log[n].idx = IF AtCall(f) THEN f.idx ELSE 0
            /\ f.op \in {"Append", "Set"} =>
                  /\ Len(f.result) = Len(mut) - (IF AtCall(f) THEN 1 ELSE 0)
                  /\ \A i \in DOMAIN f.result :
                        /\ f.result[i].Type = f.recs[i].Type
                        /\ f.result[i].Value = f.recs[i].Value
            /\ (f.op = "Delete" /\ f.pc # "idle") =>
                  f.result = MatchedInputs(f, f.idx - 1)
            /\ (f.op = "Get" /\ f.err # NoErr) => f.result = <<>>

\* SetRecords with three inputs whose second mutation call fails: zones,
\* records, two updates, the result of the first, and nothing for the third
C18_Witness ==
    \E c \in Callers :
        LET f == frame[c] IN
        /\ f.op = "Set" /\ f.pc = "done" /\ f.err.kind = "update"
        /\ f.recs = <<RecA, RecB, RecC>>
        /\ f.log = <<Call("ListZones", 0, 0), Call("ListRecords", 0, 0),
                     Call("Update", 1, 1), Call("Update", 1, 2)>>
        /\ Len(f.result) = 1

(***************************************************************************)
(* C19. Every record GetRecords returns matches the vendor record it was   *)
(* derived from: for every record v of the vendor's listing of a zone, at  *)
(* the apex or below it, and either spelling of the zone,                  *)
(* matchesRecord(v, toLibdnsRecord(v, zone), zone) holds.                  *)
(***************************************************************************)
C19_ListedRecordMatches ==
    conv.stage = "matched" => conv.match

(***************************************************************************)
(* C20. A GetRecords invocation issues no create, update or delete call,   *)
(* at most one list-zones call and at most one list-records call; the      *)
(* vendor's records stay as they were, and of the Provider only the zone   *)
(* cache (with its lock) and the client change: the cache gains at most    *)
(* the entry of the invocation's zone.                                     *)
(***************************************************************************)
C20_GetRecordsReadsOnly ==
    /\ [](\A c \in Callers :
             LET f == frame[c] IN
             f.op = "Get" =>
                /\ Mutations(f.log) = <<>> /\ NoMutation(f)
                /\ f.calls.lz <= 1 /\ f.calls.lr <= 1
                /\ Len(f.log) = f.calls.lz + f.calls.lr
                /\ vendorRecords = f.before
                /\ DOMAIN zoneCache \subseteq DOMAIN f.cacheBefore \cup {ZoneOf(f)}
                /\ \A z \in DOMAIN f.cacheBefore :
                      z \in DOMAIN zoneCache /\ zoneCache[z] = f.cacheBefore[z])
    /\ [][(\E c \in Callers : frame[c].op = "Get")
             => UNCHANGED <<Email, APIKey, vendor>>]_vars

\* a GetRecords that listed the zones and the records, and cached the zone
C20_Witness ==
    \E c \in Callers :
        LET f == frame[c] IN
        /\ f.op = "Get" /\ f.pc = "done" /\ f.err = NoErr
        /\ f.calls.lz = 1 /\ f.calls.lr = 1
        /\ f.existing # <<>>
        /\ zoneCache # f.cacheBefore
        /\ client.set

====
